---- MODULE Spec2Model ----
(***************************************************************************)
(* Digby temperature dataset: the incremental update run                   *)
(* (update_digby_temperature.py), its merge step taken as a function of    *)
(* the existing frame and the new batch, its save and load taken as        *)
(* conversions between values and CSV text, the wind fields it builds from *)
(* a day of the service's answer, the first fetch                          *)
(* (fetch_digby_temperature.py), and the scripts that read the dataset:    *)
(* analyze_*.py, compare_march_november.py and the plotting scripts.       *)
(*                                                                         *)
(* A date is a tuple <<year, month, day>>; NaT is pandas' null timestamp.  *)
(* A record (one CSV row) is [date, max_temp_c, min_temp_c], with the wind *)
(* columns where the wind scripts are concerned; the other columns are     *)
(* carried along by the code and never read by the operations modelled     *)
(* here.  A frame (DataFrame, CSV file) is a sequence of records.          *)
(*                                                                         *)
(* Each group of scripts has its own specification over the same           *)
(* variables; the variables a specification does not use stay parked.      *)
(***************************************************************************)
EXTENDS Integers, Sequences, FiniteSets, TLC

VARIABLES
    \* ---- merge taken as a function: inputs and results
    D,            \* existing dataset (df_existing)
    B1,           \* a batch of new records (df_new)
    B2,           \* a second batch
    mDB1,         \* merge(D, B1)
    mDB1B1,       \* merge(merge(D, B1), B1)
    mDB1B2,       \* merge(merge(D, B1), B2)
    mDB2,         \* merge(D, B2)
    mDB2B1,       \* merge(merge(D, B2), B1)
    mstep,        \* how many of the five merges have been applied
    \* ---- the update run (update_digby_temperature.py) and the disk
    csv_exists,       \* os.path.exists(CSV_FILE)
    csv_header,       \* the file on disk has its header line
    csv_rows,         \* the data rows of the file on disk
    today,            \* datetime.now().date() of the current run
    pc,               \* position of the run
    df_existing,      \* the frame read at line 46
    last_date,
    start_date,
    months_to_fetch,
    fetched,          \* months of months_to_fetch already requested
    new_records,
    df_combined,
    written,          \* rows of df_combined written by to_csv so far
    exit_status,      \* -1 while the run goes on
    outcome,          \* which exit the run took
    \* ---- the analysis scripts (analyze_*.py)
    agg_df,               \* the dataset the scripts read
    agg_exists,           \* the dataset file is there
    agg_has_wind,         \* the dataset has the wind columns
    fetch_csv_exists,     \* the file visualize_temperature reads is there
    agg_ran,              \* the scripts that have run
    agg_exit,             \* script -> how it ended
    cold_days_by_year,    \* returned by analyze_cold_days
    cold_report,          \* its printed per-year lines
    cold_coldest,         \* its printed coldest record, if any
    cold_by_month,        \* its printed month breakdown
    extreme_cold_by_year, \* returned by analyze_extreme_cold_days
    extreme_report,       \* its printed per-year lines
    extreme_coldest,      \* its printed coldest record, if any
    extreme_by_month,     \* its printed month breakdown
    streaks,              \* analyze_january_patterns: year -> streaks printed
    max_streak,           \* analyze_january_patterns: year -> longest streak
    \* ---- the comparison and plotting scripts; they read the same dataset
    artifacts,            \* the output files written
    comparison,           \* compare_march_november: year -> row of `comparison`
    colder_counts,        \* its november_colder_count, march_colder_count
    daily_avg,            \* plot_monthly_average_temp: day of year -> mean
    daily_stats,          \* plot_yearly_high_low_average: day of year -> means
    wind_monthly_avg,     \* visualize_wind: its monthly_avg, once computed
    iwind_monthly_avg,    \* plot_interactive_wind: its monthly_avg, once computed
    \* ---- a dataset written by to_csv and read back by read_csv
    rt_D,                 \* the frame in memory (df_combined)
    rt_file,              \* the text cells of the file written from it
    rt_loaded,            \* the frame read back from the file
    rt_pc,                \* "memory", "saved", "loaded"
    \* ---- one day of an API response turned into a record (update lines 140-160)
    day,                  \* the day of the response, as far as its 'hourly' key
    record,               \* the wind fields of the record built from it
    \* ---- the first fetch (fetch_digby_temperature.py)
    fetch_pc,             \* "fetch", "done"
    total_requests,       \* turns of its loop over the months so far
    all_records,
    fetch_csv_rows,       \* the data rows of the file it writes
    fetch_exit            \* -1 while it goes on

mergeVars == <<D, B1, B2, mDB1, mDB1B1, mDB1B2, mDB2, mDB2B1, mstep>>

diskVars == <<csv_exists, csv_header, csv_rows>>

runVars == <<today, pc, df_existing, last_date, start_date, months_to_fetch,
             fetched, new_records, df_combined, written, exit_status, outcome>>

aggInVars == <<agg_df, agg_exists, agg_has_wind, fetch_csv_exists>>
coldVars == <<cold_days_by_year, cold_report, cold_coldest, cold_by_month>>
extremeVars == <<extreme_cold_by_year, extreme_report, extreme_coldest, extreme_by_month>>
janVars == <<streaks, max_streak>>
cmpVars == <<comparison, colder_counts>>
doyVars == <<daily_avg, daily_stats>>
windVars == <<wind_monthly_avg, iwind_monthly_avg>>

aggVars == <<aggInVars, agg_ran, agg_exit, artifacts, coldVars, extremeVars, janVars,
             cmpVars, doyVars, windVars>>

\* what the update run, the merge function and the analyses leave alone
rtVars == <<rt_D, rt_file, rt_loaded, rt_pc>>

dayVars == <<day, record>>
fetchVars == <<fetch_pc, total_requests, all_records, fetch_csv_rows, fetch_exit>>

notUpdVars == <<fetchVars, mergeVars, aggVars, rtVars, dayVars>>
notMergeVars == <<fetchVars, diskVars, runVars, aggVars, rtVars, dayVars>>
notAggVars == <<fetchVars, mergeVars, diskVars, runVars, rtVars, dayVars>>
notRtVars == <<fetchVars, mergeVars, diskVars, runVars, aggVars, dayVars>>
notDayVars == <<fetchVars, mergeVars, diskVars, runVars, aggVars, rtVars>>

vars == <<mergeVars, diskVars, runVars, aggVars, rtVars, dayVars, fetchVars>>

----------------------------------------------------------------------------
(* Bounds of the model *)

\* longest existing frame / batch drawn as an input of the merge
MaxLen == 2

----------------------------------------------------------------------------
(* Dates *)

NaT == <<0, 0, 0>>

\* datetime comparison: chronological order of <<year, month, day>>
DateLT(a, b) ==
    \/ a[1] < b[1]
    \/ a[1] = b[1] /\ a[2] < b[2]
    \/ a[1] = b[1] /\ a[2] = b[2] /\ a[3] < b[3]

DateLE(a, b) == a = b \/ DateLT(a, b)

IsLeap(y) == (y % 4 = 0 /\ y % 100 # 0) \/ y % 400 = 0

\* calendar.monthrange(year, month)[1]
MonthRange(y, m) ==
    IF m = 2 THEN (IF IsLeap(y) THEN 29 ELSE 28)
    ELSE IF m \in {4, 6, 9, 11} THEN 30 ELSE 31

\* d + timedelta(days=1); NaT + timedelta is NaT
AddDay(d) ==
    IF d = NaT THEN NaT
    ELSE IF d[3] < MonthRange(d[1], d[2]) THEN <<d[1], d[2], d[3] + 1>>
    ELSE IF d[2] = 12 THEN <<d[1] + 1, 1, 1>>
    ELSE <<d[1], d[2] + 1, 1>>

Rec(d, hi, lo) == [date |-> d, max_temp_c |-> hi, min_temp_c |-> lo]

SeqsUpTo(S, n) == UNION {[1..k -> S] : k \in 0..n}

\* the frame without its row i
RemoveAt(s, i) == [k \in 1..(Len(s) - 1) |-> IF k < i THEN s[k] ELSE s[k + 1]]

----------------------------------------------------------------------------
(* The merge step: concat, sort_values('date'), drop_duplicates(keep='last') *)

\* pd.concat([df_existing, df_new], ignore_index=True)
Concat(existing, new) == existing \o new

\* A mutant of SortValues: the frame is left in concatenation order.
SortValuesNoSort(s) == {s}

\* df.sort_values('date') with the default kind='quicksort', which pandas
\* documents as not stable: rows come out in ascending date order, rows of
\* equal date in any order.  Rows without a date (NaT) are put last
\* (na_position='last'), in the order they had.  The set of frames the call
\* can return.
RECURSIVE SortValues(_)
SortValues(s) ==
    IF s = <<>> THEN {<<>>}
    ELSE LET dated == {i \in 1..Len(s) : s[i].date # NaT}
             first == IF dated = {} THEN {1}
                      ELSE {i \in dated :
                               \A j \in dated : ~DateLT(s[j].date, s[i].date)}
         IN  UNION {{<<s[i]>> \o t : t \in SortValues(RemoveAt(s, i))} : i \in first}

\* df.drop_duplicates(subset=['date'], keep='last'): a row stays iff no later
\* row of the frame has its date; the rows that stay keep their order.
DropDuplicates(s) ==
    LET keep == {i \in 1..Len(s) : \A j \in (i + 1)..Len(s) : s[j].date # s[i].date}
        F[i \in 0..Len(s)] ==
            IF i = 0 THEN <<>>
            ELSE IF i \in keep THEN Append(F[i - 1], s[i]) ELSE F[i - 1]
    IN  F[Len(s)]

\* the frames df_combined can be after lines 178-182
Merge(existing, new) ==
    {DropDuplicates(t) : t \in SortValues(Concat(existing, new))}

----------------------------------------------------------------------------
(* The update run: update_digby_temperature.py *)

\* A mutant of LatestDate: the date of the first row.
LatestDateFirstRow(df) == IF df = <<>> THEN NaT ELSE df[1].date

\* df_existing['date'].max(): a reduction over the column; NaT for no rows
LatestDate(df) ==
    LET F[i \in 0..Len(df)] ==
            IF i = 0 THEN NaT
            ELSE IF F[i - 1] = NaT \/ DateLT(F[i - 1], df[i].date)
                 THEN df[i].date ELSE F[i - 1]
    IN  F[Len(df)]

\* A mutant of MonthsLoop: the loop stops after its first turn.
MonthsLoopOneTurn(current, now, acc) ==
    IF ~DateLE(current, now) THEN acc ELSE Append(acc, <<current[1], current[2]>>)

\* lines 66-74: the while loop from start_date, one (year, month) per turn
RECURSIVE MonthsLoop(_, _, _)
MonthsLoop(current, now, acc) ==
    IF ~DateLE(current, now) THEN acc
    ELSE MonthsLoop(IF current[2] = 12 THEN <<current[1] + 1, 1, 1>>
                    ELSE <<current[1], current[2] + 1, 1>>,
                    now,
                    Append(acc, <<current[1], current[2]>>))

\* line 77: list(dict.fromkeys(months)): first occurrences, in order
DictFromKeys(s) ==
    LET keep == {i \in 1..Len(s) : \A j \in 1..(i - 1) : s[j] # s[i]}
        F[i \in 0..Len(s)] ==
            IF i = 0 THEN <<>>
            ELSE IF i \in keep THEN Append(F[i - 1], s[i]) ELSE F[i - 1]
    IN  F[Len(s)]

\* lines 65-77; with start_date NaT every comparison of the loop is false
MonthsToFetch(start, now) ==
    IF start = NaT THEN <<>> ELSE DictFromKeys(MonthsLoop(start, now, <<>>))

\* A mutant of InWindow: the lower end of the window is not tested.
InWindowNoLower(day_date, start, now) == DateLE(day_date, now)

\* line 139: day_date >= start_date.date() and day_date <= today
InWindow(day_date, start, now) == DateLE(start, day_date) /\ DateLE(day_date, now)

\* lines 135-161: the records appended for one month's weather list
WindowFilter(weather, start, now) ==
    LET Test(r) == InWindow(r.date, start, now)
    IN  SelectSeq(weather, Test)

\* A mutant of NoNewRecords: the test never stops the run.
NoNewRecordsNever(recs) == Len(recs) < 0

\* line 169: len(new_records) == 0
NoNewRecords(recs) == Len(recs) = 0

\* the days the model follows, around a year's end
UpdDays == {<<2024, 12, 30>>, <<2024, 12, 31>>, <<2025, 1, 1>>, <<2025, 1, 2>>}

\* (max_temp_c, min_temp_c) of an observation: two versions of a day
UpdTemps == {<<3, -2>>, <<-6, -12>>}

\* the days of a set in ascending order
RECURSIVE AscSeq(_)
AscSeq(S) ==
    IF S = {} THEN <<>>
    ELSE LET m == CHOOSE x \in S : \A y \in S : DateLE(x, y)
         IN  <<m>> \o AscSeq(S \ {m})

\* frames in ascending date order, one row per day of some of the days
FramesOver(days) ==
    UNION {{[i \in 1..Cardinality(S) |->
                Rec(AscSeq(S)[i], f[AscSeq(S)[i]][1], f[AscSeq(S)[i]][2])]
            : f \in [S -> UpdTemps]} : S \in SUBSET days}

\* fetch_month_data (lines 84-121): None on a request or API error, else the
\* month's weather list, which the remote service decides
ApiNone == [ok |-> FALSE, weather |-> <<>>]

ApiResponses(year, month) ==
    {ApiNone} \cup
    {[ok |-> TRUE, weather |-> w] :
        w \in FramesOver({d \in UpdDays : d[1] = year /\ d[2] = month})}

RunLocalsReset ==
    /\ df_existing' = <<>>
    /\ last_date' = NaT
    /\ start_date' = NaT
    /\ months_to_fetch' = <<>>
    /\ fetched' = 0
    /\ new_records' = <<>>
    /\ df_combined' = <<>>
    /\ written' = 0

UpdInit ==
    /\ today \in UpdDays
    /\ csv_exists \in BOOLEAN
    /\ csv_header = csv_exists
    /\ csv_rows \in (IF csv_exists
                     THEN FramesOver({d \in UpdDays : DateLE(d, today)})
                     ELSE {<<>>})
    /\ pc = "start"
    /\ df_existing = <<>> /\ last_date = NaT /\ start_date = NaT
    /\ months_to_fetch = <<>> /\ fetched = 0 /\ new_records = <<>>
    /\ df_combined = <<>> /\ written = 0
    /\ exit_status = -1
    /\ outcome = "running"

Exit(status, how) ==
    /\ pc' = "done"
    /\ exit_status' = status
    /\ outcome' = how

\* lines 38-42: the dataset file is missing
NotFound ==
    /\ pc = "start"
    /\ ~csv_exists
    /\ Exit(1, "not_found")
    /\ UNCHANGED <<notUpdVars, diskVars, today, df_existing, last_date, start_date,
                   months_to_fetch, fetched, new_records, df_combined, written>>

\* lines 44-46: a file cut before its header makes read_csv raise
ReadFails ==
    /\ pc = "start"
    /\ csv_exists /\ ~csv_header
    /\ Exit(1, "read_error")
    /\ UNCHANGED <<notUpdVars, diskVars, today, df_existing, last_date, start_date,
                   months_to_fetch, fetched, new_records, df_combined, written>>

\* lines 44-81: read the file, find the window, stop when it is empty, list
\* the months.  With no rows start_date is NaT, and `NaT > today` raises
\* TypeError or is False, depending on the pandas release.
ReadExisting ==
    /\ pc = "start"
    /\ csv_exists /\ csv_header
    /\ df_existing' = csv_rows
    /\ last_date' = LatestDate(csv_rows)
    /\ start_date' = AddDay(LatestDate(csv_rows))
    /\ \/ /\ start_date' = NaT
          /\ Exit(1, "type_error")
          /\ UNCHANGED months_to_fetch
       \/ /\ start_date' # NaT
          /\ DateLT(today, start_date')
          /\ Exit(0, "up_to_date")
          /\ UNCHANGED months_to_fetch
       \/ /\ start_date' = NaT \/ ~DateLT(today, start_date')
          /\ months_to_fetch' = MonthsToFetch(start_date', today)
          /\ pc' = "fetch"
          /\ UNCHANGED <<exit_status, outcome>>
    /\ UNCHANGED <<notUpdVars, diskVars, today, fetched, new_records, df_combined,
                   written>>

\* lines 130-164: one turn of the loop over months_to_fetch
FetchMonth ==
    /\ pc = "fetch"
    /\ fetched < Len(months_to_fetch)
    /\ \E month_data \in ApiResponses(months_to_fetch[fetched + 1][1],
                                      months_to_fetch[fetched + 1][2]) :
          new_records' = new_records \o
                         WindowFilter(month_data.weather, start_date, today)
    /\ fetched' = fetched + 1
    /\ UNCHANGED <<notUpdVars, diskVars, today, pc, df_existing, last_date, start_date,
                   months_to_fetch, df_combined, written, exit_status, outcome>>

\* lines 166-171: nothing was retrieved
NoNewData ==
    /\ pc = "fetch"
    /\ fetched = Len(months_to_fetch)
    /\ NoNewRecords(new_records)
    /\ Exit(0, "no_new_data")
    /\ UNCHANGED <<notUpdVars, diskVars, today, df_existing, last_date, start_date,
                   months_to_fetch, fetched, new_records, df_combined, written>>

\* lines 173-182: the merge; pd.DataFrame([]) has no 'date' column, so line
\* 175 raises KeyError for an empty batch
MergeNew ==
    /\ pc = "fetch"
    /\ fetched = Len(months_to_fetch)
    /\ ~NoNewRecords(new_records)
    /\ IF new_records = <<>>
       THEN /\ Exit(1, "key_error")
            /\ UNCHANGED df_combined
       ELSE /\ df_combined' \in Merge(df_existing, new_records)
            /\ pc' = "save"
            /\ UNCHANGED <<exit_status, outcome>>
    /\ UNCHANGED <<notUpdVars, diskVars, today, df_existing, last_date, start_date,
                   months_to_fetch, fetched, new_records, written>>

\* line 196, to_csv opening CSV_FILE with mode 'w': the file is emptied
SaveOpen ==
    /\ pc = "save"
    /\ csv_header' = FALSE
    /\ csv_rows' = <<>>
    /\ written' = 0
    /\ pc' = "write_header"
    /\ UNCHANGED <<notUpdVars, csv_exists, today, df_existing, last_date, start_date,
                   months_to_fetch, fetched, new_records, df_combined, exit_status,
                   outcome>>

\* line 196, to_csv: the header line reaches the file
SaveHeader ==
    /\ pc = "write_header"
    /\ csv_header' = TRUE
    /\ pc' = "write_rows"
    /\ UNCHANGED <<notUpdVars, csv_exists, csv_rows, today, df_existing, last_date,
                   start_date, months_to_fetch, fetched, new_records, df_combined,
                   written, exit_status, outcome>>

\* line 196, to_csv: the next row reaches the file
SaveRow ==
    /\ pc = "write_rows"
    /\ written < Len(df_combined)
    /\ csv_rows' = Append(csv_rows, df_combined[written + 1])
    /\ written' = written + 1
    /\ UNCHANGED <<notUpdVars, csv_exists, csv_header, today, pc, df_existing, last_date,
                   start_date, months_to_fetch, fetched, new_records, df_combined,
                   exit_status, outcome>>

\* lines 196-219: the file is closed, the plot redrawn, the run ends
SaveClose ==
    /\ pc = "write_rows"
    /\ written = Len(df_combined)
    /\ Exit(0, "saved")
    /\ UNCHANGED <<notUpdVars, diskVars, today, df_existing, last_date, start_date,
                   months_to_fetch, fetched, new_records, df_combined, written>>

\* the process dies during line 196 (killed, power lost, disk full): nothing
\* in the script undoes what to_csv has done to the file so far
CrashInSave ==
    /\ pc \in {"write_header", "write_rows"}
    /\ Exit(1, "crash")
    /\ UNCHANGED <<notUpdVars, diskVars, today, df_existing, last_date, start_date,
                   months_to_fetch, fetched, new_records, df_combined, written>>

\* the script is run again, the same day or a later one
NextRun ==
    /\ pc = "done"
    /\ \E t \in UpdDays : DateLE(today, t) /\ today' = t
    /\ pc' = "start"
    /\ exit_status' = -1
    /\ outcome' = "running"
    /\ RunLocalsReset
    /\ UNCHANGED <<notUpdVars, diskVars>>

UpdNext ==
    \/ NotFound \/ ReadFails \/ ReadExisting \/ FetchMonth \/ NoNewData \/ MergeNew
    \/ SaveOpen \/ SaveHeader \/ SaveRow \/ SaveClose \/ CrashInSave \/ NextRun

RtParked == rt_D = <<>> /\ rt_file = <<>> /\ rt_loaded = <<>> /\ rt_pc = "off"

DayParked == day = <<>> /\ record = <<>>

FetchParked ==
    /\ fetch_pc = "off" /\ total_requests = 0 /\ all_records = <<>>
    /\ fetch_csv_rows = <<>> /\ fetch_exit = -1

MergeParked ==
    /\ D = <<>> /\ B1 = <<>> /\ B2 = <<>>
    /\ mDB1 = <<>> /\ mDB1B1 = <<>> /\ mDB1B2 = <<>>
    /\ mDB2 = <<>> /\ mDB2B1 = <<>>
    /\ mstep = 0

\* no script has computed anything
NoResults ==
    /\ comparison = <<>> /\ colder_counts = <<>>
    /\ daily_avg = <<>> /\ daily_stats = <<>>
    /\ wind_monthly_avg = <<>> /\ iwind_monthly_avg = <<>>
    /\ cold_days_by_year = <<>> /\ cold_report = <<>>
    /\ cold_coldest = <<>> /\ cold_by_month = <<>>
    /\ extreme_cold_by_year = <<>> /\ extreme_report = <<>>
    /\ extreme_coldest = <<>> /\ extreme_by_month = <<>>
    /\ streaks = <<>> /\ max_streak = <<>>

\* no script has run
AggNothingRan ==
    /\ agg_ran = {}
    /\ agg_exit = <<>>
    /\ artifacts = {}
    /\ NoResults

AggParked ==
    /\ agg_df = <<>>
    /\ agg_exists = FALSE
    /\ agg_has_wind = FALSE
    /\ fetch_csv_exists = FALSE
    /\ AggNothingRan

\* the frame with row r put after its first p rows
InsertAt(s, p, r) == SubSeq(s, 1, p) \o <<r>> \o SubSeq(s, p + 1, Len(s))

\* files one row of which has an empty date cell: read_csv reads the cell as
\* NaN and pd.to_datetime (line 47) turns it into NaT
FilesWithMissingDate(days) ==
    {InsertAt(f, p, Rec(NaT, t[1], t[2])) :
        <<f, p, t>> \in {x \in FramesOver(days) \X (0..Cardinality(days)) \X UpdTemps :
                            x[2] <= Len(x[1])}}

\* the update run started on a file that has such a row
LoadInit ==
    /\ MergeParked /\ AggParked /\ RtParked /\ DayParked /\ FetchParked
    /\ today \in UpdDays
    /\ csv_exists \in BOOLEAN
    /\ csv_header = csv_exists
    /\ csv_rows \in (IF csv_exists
                     THEN FilesWithMissingDate({d \in UpdDays : DateLE(d, today)})
                     ELSE {<<>>})
    /\ pc = "start"
    /\ df_existing = <<>> /\ last_date = NaT /\ start_date = NaT
    /\ months_to_fetch = <<>> /\ fetched = 0 /\ new_records = <<>>
    /\ df_combined = <<>> /\ written = 0
    /\ exit_status = -1
    /\ outcome = "running"

Init == UpdInit /\ MergeParked /\ AggParked /\ RtParked /\ DayParked /\ FetchParked

Next == UpdNext

Spec == Init /\ [][Next]_vars

LoadSpec == LoadInit /\ [][UpdNext]_vars

----------------------------------------------------------------------------
(* Properties of the update run, checked under Spec *)

\* the run has read the dataset file (lines 44-58 have run)
HasRead ==
    \/ pc \in {"fetch", "save", "write_header", "write_rows"}
    \/ pc = "done" /\ outcome \notin {"not_found", "read_error"}

\* C4: a crash or failure at any point of the save step leaves the dataset
\* file equal to the complete previous dataset or to the complete new one,
\* never a truncated or half-written file.
C4_SaveLeavesOldOrNew ==
    (pc = "done" /\ outcome = "crash") =>
        /\ csv_header
        /\ csv_rows = df_existing \/ csv_rows = df_combined

\* C5: a run that obtains no new record (the window is empty, or no fetch
\* returns a day inside it) never touches the dataset file and ends as a
\* no-op with exit status 0.
C5_NoNewRecordsIsNoOp ==
    /\ (HasRead /\ new_records = <<>>) => (csv_header /\ csv_rows = df_existing)
    /\ (pc = "done" /\ new_records = <<>> /\ HasRead /\ outcome # "type_error")
          => (outcome \in {"up_to_date", "no_new_data"} /\ exit_status = 0)

\* a run over a non-empty window ended with nothing retrieved
C5_Witness ==
    /\ pc = "done" /\ outcome = "no_new_data"
    /\ fetched >= 1
    /\ df_existing # <<>>
    /\ csv_rows = df_existing

\* C7: every record an update run adds has a date d with
\* latest_date + 1 day <= d <= today; fetched days on or before latest_date
\* or after today are never added.
C7_AddedInsideWindow ==
    /\ \A i \in 1..Len(new_records) :
          /\ \A j \in 1..Len(df_existing) :
                DateLT(df_existing[j].date, new_records[i].date)
          /\ DateLE(AddDay(last_date), new_records[i].date)
          /\ DateLE(new_records[i].date, today)
    /\ (pc = "done" /\ outcome = "saved") =>
          \A i \in 1..Len(csv_rows) :
             \/ \E j \in 1..Len(df_existing) : df_existing[j] = csv_rows[i]
             \/ /\ \A j \in 1..Len(df_existing) :
                      DateLT(df_existing[j].date, csv_rows[i].date)
                /\ DateLE(csv_rows[i].date, today)

\* a run over a window of two months saved new records
C7_Witness ==
    /\ pc = "done" /\ outcome = "saved"
    /\ Len(months_to_fetch) = 2
    /\ df_existing # <<>>
    /\ Len(csv_rows) > Len(df_existing)

----------------------------------------------------------------------------
(* MergeSpec: the merge applied to drawn inputs *)

MergeDates == {<<2025, 1, 1>>, <<2025, 1, 2>>}

\* two versions of the first day's observation, one of the second day's
MergeRecords ==
    {Rec(d, 3, -2) : d \in MergeDates} \cup {Rec(<<2025, 1, 1>>, -6, -12)}

DatesOf(s) == {s[i].date : i \in 1..Len(s)}

UpdParked ==
    /\ csv_exists = FALSE /\ csv_header = FALSE /\ csv_rows = <<>>
    /\ today = NaT
    /\ pc = "off"
    /\ df_existing = <<>> /\ last_date = NaT /\ start_date = NaT
    /\ months_to_fetch = <<>> /\ fetched = 0 /\ new_records = <<>>
    /\ df_combined = <<>> /\ written = 0
    /\ exit_status = -1
    /\ outcome = "off"

MergeInit ==
    /\ D \in SeqsUpTo(MergeRecords, MaxLen)
    /\ B1 \in SeqsUpTo(MergeRecords, MaxLen)
    /\ B2 \in SeqsUpTo(MergeRecords, 1)
    /\ mDB1 = <<>> /\ mDB1B1 = <<>> /\ mDB1B2 = <<>>
    /\ mDB2 = <<>> /\ mDB2B1 = <<>>
    /\ mstep = 0
    /\ UpdParked
    /\ AggParked
    /\ RtParked /\ DayParked /\ FetchParked

MergeDB1 ==
    /\ mstep = 0
    /\ mDB1' \in Merge(D, B1)
    /\ mstep' = 1
    /\ UNCHANGED <<D, B1, B2, mDB1B1, mDB1B2, mDB2, mDB2B1, notMergeVars>>

MergeDB1B1 ==
    /\ mstep = 1
    /\ mDB1B1' \in Merge(mDB1, B1)
    /\ mstep' = 2
    /\ UNCHANGED <<D, B1, B2, mDB1, mDB1B2, mDB2, mDB2B1, notMergeVars>>

MergeDB1B2 ==
    /\ mstep = 2
    /\ mDB1B2' \in Merge(mDB1, B2)
    /\ mstep' = 3
    /\ UNCHANGED <<D, B1, B2, mDB1, mDB1B1, mDB2, mDB2B1, notMergeVars>>

MergeDB2 ==
    /\ mstep = 3
    /\ mDB2' \in Merge(D, B2)
    /\ mstep' = 4
    /\ UNCHANGED <<D, B1, B2, mDB1, mDB1B1, mDB1B2, mDB2B1, notMergeVars>>

MergeDB2B1 ==
    /\ mstep = 4
    /\ mDB2B1' \in Merge(mDB2, B1)
    /\ mstep' = 5
    /\ UNCHANGED <<D, B1, B2, mDB1, mDB1B1, mDB1B2, mDB2, notMergeVars>>

MergeNext == MergeDB1 \/ MergeDB1B1 \/ MergeDB1B2 \/ MergeDB2 \/ MergeDB2B1

MergeSpec == MergeInit /\ [][MergeNext]_vars

----------------------------------------------------------------------------
(* Properties of the merge, checked under MergeSpec *)

StrictlyIncreasing(s) == \A i \in 1..(Len(s) - 1) : DateLT(s[i].date, s[i + 1].date)

\* C1: when the batch holds a record for a date the existing dataset has,
\* the merged dataset's record for that date is the batch's, not the
\* existing one.
C1_NewRecordsWin ==
    mstep >= 1 =>
        \A i \in 1..Len(mDB1) :
            mDB1[i].date \in DatesOf(B1) => \E j \in 1..Len(B1) : B1[j] = mDB1[i]

\* C2: merging the batch into merge(D, B) again gives merge(D, B).
C2_MergeIdempotent == mstep >= 2 => mDB1B1 = mDB1

\* C3: after any merge, of any existing frame (sorted or not, with or
\* without duplicate dates) and any batch, the dates of the result are
\* strictly increasing in stored order.
C3_MergedStrictlyIncreasing ==
    /\ mstep >= 1 => StrictlyIncreasing(mDB1)
    /\ mstep >= 2 => StrictlyIncreasing(mDB1B1)
    /\ mstep >= 3 => StrictlyIncreasing(mDB1B2)
    /\ mstep >= 4 => StrictlyIncreasing(mDB2)
    /\ mstep >= 5 => StrictlyIncreasing(mDB2B1)

\* an unsorted existing frame and a batch that repeats one of its dates
C3_Witness ==
    /\ mstep >= 1
    /\ Len(D) = 2 /\ DateLT(D[2].date, D[1].date)
    /\ DatesOf(B1) \cap DatesOf(D) # {}
    /\ Len(mDB1) = 2

\* C6: for batches over disjoint sets of dates the order of the two merges
\* does not matter.
C6_DisjointMergesCommute ==
    (mstep = 5 /\ DatesOf(B1) \cap DatesOf(B2) = {}) => mDB1B2 = mDB2B1

----------------------------------------------------------------------------
(* The analysis scripts: analyze_cold_days.py, analyze_extreme_cold_days.py, *)
(* analyze_january_patterns.py                                              *)

\* df['date'].dt.year, df['date'].dt.month
YearOf(r) == r.date[1]
MonthOf(r) == r.date[2]

\* boolean-mask selection df[mask]: the rows that pass, in order
MinBelow(df, t) == LET Test(r) == r.min_temp_c < t IN SelectSeq(df, Test)
MaxBelow(df, t) == LET Test(r) == r.max_temp_c < t IN SelectSeq(df, Test)

\* rows.groupby('year').size(): one entry per year that has a row in `rows`
GroupByYearSize(rows) ==
    [y \in {YearOf(rows[i]) : i \in 1..Len(rows)} |->
        Cardinality({i \in 1..Len(rows) : YearOf(rows[i]) = y})]

\* the integers of a set in ascending order
RECURSIVE SortedInts(_)
SortedInts(S) ==
    IF S = {} THEN <<>>
    ELSE LET m == CHOOSE x \in S : \A y \in S : x <= y
         IN  <<m>> \o SortedInts(S \ {m})

\* sorted(df['year'].unique())
AllYears(df) == SortedInts({YearOf(df[i]) : i \in 1..Len(df)})

\* Series.get(key, default)
SeriesGet(series, key, default) ==
    IF key \in DOMAIN series THEN series[key] ELSE default

\* analyze_cold_days lines 36-40 (analyze_extreme_cold_days 38-42): the
\* printed line of every year of the dataset, <<year, count>>
YearLines(df, by_year) ==
    [i \in 1..Len(AllYears(df)) |->
        <<AllYears(df)[i], SeriesGet(by_year, AllYears(df)[i], 0)>>]

\* analyze_january_patterns line 23 and line 54: the January rows of a year,
\* sorted by date.  The rows of a dataset have distinct dates, so the sort
\* has one result.
JanuaryOf(df, year) ==
    LET Test(r) == MonthOf(r) = 1 /\ YearOf(r) = year
    IN  CHOOSE t \in SortValues(SelectSeq(df, Test)) : TRUE

JanuaryYears(df) ==
    {YearOf(df[i]) : i \in {k \in 1..Len(df) : MonthOf(df[k]) = 1}}

\* lines 58-71: the loop over one year's January rows
StreakLoop(year_data) ==
    LET F[i \in 0..Len(year_data)] ==
            IF i = 0
            THEN [current_streak |-> 0, max_streak |-> 0,
                  streak_start |-> NaT, streaks |-> <<>>]
            ELSE LET p == F[i - 1]
                     row == year_data[i]
                 IN  IF row.max_temp_c < -5
                     THEN [current_streak |-> p.current_streak + 1,
                           max_streak |-> IF p.current_streak + 1 > p.max_streak
                                          THEN p.current_streak + 1 ELSE p.max_streak,
                           streak_start |-> IF p.current_streak = 0 THEN row.date
                                            ELSE p.streak_start,
                           streaks |-> p.streaks]
                     ELSE [current_streak |-> 0,
                           max_streak |-> p.max_streak,
                           streak_start |-> p.streak_start,
                           streaks |-> IF p.current_streak > 0
                                       THEN Append(p.streaks,
                                                   <<p.streak_start, p.current_streak>>)
                                       ELSE p.streaks]
    IN  F[Len(year_data)]

\* a scan that forgets the streak still open when the rows end
StreakScanNoFinalFlush(year_data) ==
    [streaks |-> StreakLoop(year_data).streaks,
     max_streak |-> StreakLoop(year_data).max_streak]

\* lines 58-76: the scan of one year's January rows; lines 73-76 add the
\* streak that is still open when the rows end
StreakScan(year_data) ==
    LET end == StreakLoop(year_data)
    IN  [streaks |-> IF end.current_streak > 0
                     THEN Append(end.streaks, <<end.streak_start, end.current_streak>>)
                     ELSE end.streaks,
         max_streak |-> end.max_streak]

\* df[name]: the column, by index label
Column(df, name) == [i \in 1..Len(df) |-> df[i][name]]

\* df[column < t]: the index labels of the rows that pass the mask; the
\* selected frame keeps the labels the rows have in df
Below(column, t) == {i \in DOMAIN column : column[i] < t}

\* `if len(cold_days) > 0:` (analyze_cold_days line 49, extreme line 51)
HasRowsAlways(labels) == TRUE

HasRows(labels) == labels # {}

\* rows.groupby('month').size(): one entry per month that has a row in `rows`
GroupByMonthSizeDense(rows) ==
    [m \in 1..12 |-> Cardinality({i \in 1..Len(rows) : MonthOf(rows[i]) = m})]

GroupByMonthSize(rows) ==
    [m \in {MonthOf(rows[i]) : i \in 1..Len(rows)} |->
        Cardinality({i \in 1..Len(rows) : MonthOf(rows[i]) = m})]

\* Series.min() over the rows with the given labels
SeriesMin(column, labels) ==
    CHOOSE v \in {column[i] : i \in labels} : \A i \in labels : v <= column[i]

\* Series.idxmax(): the label of the first row that has the largest value
IdxMax(column, labels) ==
    CHOOSE i \in labels :
        /\ \A j \in labels : column[j] <= column[i]
        /\ \A j \in labels : column[j] = column[i] => i <= j

\* Series.idxmin(): the label of the first row that has the smallest value
IdxMin(column, labels) ==
    CHOOSE i \in labels :
        /\ \A j \in labels : column[i] <= column[j]
        /\ \A j \in labels : column[j] = column[i] => i <= j

\* analyze_cold_days lines 50-53 (extreme 52-55): the smallest value and the
\* date of the row that idxmin names.  On an empty selection idxmin raises
\* ValueError; the scripts reach these lines behind HasRows only.
ExtremeRecord(df, labels, name) ==
    IF labels = {}
    THEN [raised |-> "ValueError", record |-> <<>>]
    ELSE [raised |-> "",
          record |-> [value |-> SeriesMin(Column(df, name), labels),
                      date |-> df[IdxMin(Column(df, name), labels)].date]]

\* the days the analysed datasets are drawn over
AggDays == {<<2024, 1, 1>>, <<2024, 1, 2>>, <<2024, 1, 3>>, <<2024, 2, 1>>,
            <<2025, 1, 1>>, <<2025, 1, 2>>}

\* (max_temp_c, min_temp_c): a mild day, a cold day, an extremely cold day
AggTemps == {<<3, -2>>, <<-6, -12>>, <<-11, -15>>}

\* datasets as the merge leaves them: ascending, one row per date, days may
\* be missing
AggDatasets ==
    UNION {{[i \in 1..Cardinality(S) |->
                Rec(AscSeq(S)[i], f[AscSeq(S)[i]][1], f[AscSeq(S)[i]][2])]
            : f \in [S -> AggTemps]} : S \in SUBSET AggDays}

AggInit ==
    /\ agg_df \in AggDatasets
    /\ agg_exists = TRUE
    /\ agg_has_wind = FALSE
    /\ fetch_csv_exists = FALSE
    /\ AggNothingRan
    /\ MergeParked
    /\ RtParked /\ DayParked /\ FetchParked
    /\ UpdParked

\* how a script ends: its exit status, what it says last (its report, an
\* error message of its own, or the interpreter's traceback of an uncaught
\* exception) and the exception it raised, if any
Ended(status, said, raised) == [status |-> status, said |-> said, raised |-> raised]

\* pd.read_csv(csv_file) of a file that is not there
FileNotFound == Ended(1, "traceback", "FileNotFoundError")

\* the existence check of the plotting scripts: a message and exit(1)
NotFoundExit == Ended(1, "error", "")

\* the script `name` ends as `how`, having written `files`
Ends(name, how, files) ==
    /\ agg_ran' = agg_ran \cup {name}
    /\ agg_exit' = agg_exit @@ (name :> how)
    /\ artifacts' = artifacts \cup files

\* analyze_cold_days(): min_temp_c < -10
AnalyzeColdDays ==
    /\ "cold" \notin agg_ran
    /\ IF ~agg_exists
       THEN Ends("cold", FileNotFound, {}) /\ UNCHANGED coldVars
       ELSE LET cold_days == Below(Column(agg_df, "min_temp_c"), -10)
                coldest == ExtremeRecord(agg_df, cold_days, "min_temp_c")
                fails == HasRows(cold_days) /\ coldest.raised # ""
            IN  /\ cold_days_by_year' = GroupByYearSize(MinBelow(agg_df, -10))
                /\ cold_report' = YearLines(agg_df, GroupByYearSize(MinBelow(agg_df, -10)))
                /\ cold_coldest' = IF HasRows(cold_days) /\ ~fails
                                   THEN <<coldest.record>> ELSE <<>>
                /\ cold_by_month' = IF HasRows(cold_days) /\ ~fails
                                    THEN GroupByMonthSize(MinBelow(agg_df, -10)) ELSE <<>>
                /\ Ends("cold", IF fails THEN Ended(1, "traceback", coldest.raised)
                                ELSE Ended(0, "report", ""), {})
    /\ UNCHANGED <<notAggVars, aggInVars, extremeVars, janVars, cmpVars, doyVars, windVars>>

\* analyze_extreme_cold_days(): max_temp_c < -10
AnalyzeExtremeColdDays ==
    /\ "extreme" \notin agg_ran
    /\ IF ~agg_exists
       THEN Ends("extreme", FileNotFound, {}) /\ UNCHANGED extremeVars
       ELSE LET extreme_cold_days == Below(Column(agg_df, "max_temp_c"), -10)
                coldest == ExtremeRecord(agg_df, extreme_cold_days, "max_temp_c")
                fails == HasRows(extreme_cold_days) /\ coldest.raised # ""
            IN  /\ extreme_cold_by_year' = GroupByYearSize(MaxBelow(agg_df, -10))
                /\ extreme_report' =
                      YearLines(agg_df, GroupByYearSize(MaxBelow(agg_df, -10)))
                /\ extreme_coldest' = IF HasRows(extreme_cold_days) /\ ~fails
                                      THEN <<coldest.record>> ELSE <<>>
                /\ extreme_by_month' = IF HasRows(extreme_cold_days) /\ ~fails
                                       THEN GroupByMonthSize(MaxBelow(agg_df, -10))
                                       ELSE <<>>
                /\ Ends("extreme", IF fails THEN Ended(1, "traceback", coldest.raised)
                                   ELSE Ended(0, "report", ""), {})
    /\ UNCHANGED <<notAggVars, aggInVars, coldVars, janVars, cmpVars, doyVars, windVars>>

\* analyze_january_patterns(), lines 48-84: the streaks of every year
AnalyzeJanuaryPatterns ==
    /\ "january" \notin agg_ran
    /\ IF ~agg_exists
       THEN Ends("january", FileNotFound, {}) /\ UNCHANGED janVars
       ELSE /\ streaks' = [y \in JanuaryYears(agg_df) |->
                              StreakScan(JanuaryOf(agg_df, y)).streaks]
            /\ max_streak' = [y \in JanuaryYears(agg_df) |->
                                 StreakScan(JanuaryOf(agg_df, y)).max_streak]
            /\ Ends("january", Ended(0, "report", ""), {})
    /\ UNCHANGED <<notAggVars, aggInVars, coldVars, extremeVars, cmpVars, doyVars, windVars>>

AggNext == AnalyzeColdDays \/ AnalyzeExtremeColdDays \/ AnalyzeJanuaryPatterns

AggSpec == AggInit /\ [][AggNext]_vars

\* datasets as the merge leaves them, over the given days and temperatures
DatasetsOver(days, temps) ==
    UNION {{[i \in 1..Cardinality(S) |->
                Rec(AscSeq(S)[i], f[AscSeq(S)[i]][1], f[AscSeq(S)[i]][2])]
            : f \in [S -> temps]} : S \in SUBSET days}

\* the streak scan alone, over the first six days of a January
JanDays == {<<2024, 1, 1>>, <<2024, 1, 2>>, <<2024, 1, 3>>, <<2024, 1, 4>>,
            <<2024, 1, 5>>, <<2024, 1, 6>>}

JanTemps == {<<-6, -12>>, <<-7, -13>>, <<-8, -14>>, <<3, -2>>}

JanInit ==
    /\ agg_df \in DatasetsOver(JanDays, JanTemps)
    /\ agg_exists = TRUE
    /\ agg_has_wind = FALSE
    /\ fetch_csv_exists = FALSE
    /\ AggNothingRan
    /\ MergeParked
    /\ RtParked /\ DayParked /\ FetchParked
    /\ UpdParked

JanNext == AnalyzeJanuaryPatterns

JanSpec == JanInit /\ [][JanNext]_vars

\* the two cold-day reports, over days of two years and three months
ColdDays == {<<2024, 1, 10>>, <<2024, 1, 11>>, <<2024, 2, 10>>, <<2025, 1, 10>>,
             <<2025, 3, 5>>}

\* (max_temp_c, min_temp_c)
ColdTemps == {<<-3, -11>>, <<0, -9>>, <<-12, -15>>, <<-14, -20>>}

ColdInit ==
    /\ agg_df \in DatasetsOver(ColdDays, ColdTemps)
    /\ agg_exists = TRUE
    /\ agg_has_wind = FALSE
    /\ fetch_csv_exists = FALSE
    /\ AggNothingRan
    /\ MergeParked
    /\ RtParked /\ DayParked /\ FetchParked
    /\ UpdParked

ColdNext == AnalyzeColdDays \/ AnalyzeExtremeColdDays

ColdSpec == ColdInit /\ [][ColdNext]_vars

----------------------------------------------------------------------------
(* compare_march_november.py *)

\* A mean is kept exact, as <<numerator, denominator>> with a positive
\* denominator; NaN has denominator 0.
NaN == <<0, 0>>

IsNaN(x) == x[2] = 0

\* twice avg_temp_c, which update line 153 stores as (max + min) / 2
Avg2(r) == r.max_temp_c + r.min_temp_c

\* the sum of f over the set S
RECURSIVE SumOver(_, _)
SumOver(f, S) ==
    IF S = {} THEN 0
    ELSE LET x == CHOOSE x \in S : TRUE IN f[x] + SumOver(f, S \ {x})

\* df['avg_temp_c'], doubled
AvgTemp2(df) == [i \in 1..Len(df) |-> Avg2(df[i])]

\* Series.mean() of column / scale over the rows idx
MeanOf(column, idx, scale) ==
    IF idx = {} THEN NaN ELSE <<SumOver(column, idx), scale * Cardinality(idx)>>

\* df[df['month'] == month].groupby('year')['avg_temp_c'].mean()
MonthAvgByYear(df, month) ==
    [y \in {YearOf(df[i]) : i \in {k \in 1..Len(df) : MonthOf(df[k]) = month}} |->
        MeanOf(AvgTemp2(df),
               {i \in 1..Len(df) : MonthOf(df[i]) = month /\ YearOf(df[i]) = y}, 2)]

\* a - b on floats: NaN when either is NaN
Minus(a, b) ==
    IF IsNaN(a) \/ IsNaN(b) THEN NaN
    ELSE <<a[1] * b[2] - b[1] * a[2], a[2] * b[2]>>

\* x > 0 and x < 0 on floats: both False for NaN
Positive(x) == ~IsNaN(x) /\ x[1] > 0
Negative(x) == ~IsNaN(x) /\ x[1] < 0

\* lines 45-47: 'November' if x > 0 else 'March' if x < 0 else 'Same'
ColderMonth(x) ==
    IF Positive(x) THEN "November" ELSE IF Negative(x) THEN "March" ELSE "Same"

\* lines 40-47: the frame built from the two series is indexed by the years
\* of either; a year missing from one series has NaN there
Comparison(df) ==
    LET march_avg == MonthAvgByYear(df, 3)
        november_avg == MonthAvgByYear(df, 11)
    IN  [y \in DOMAIN march_avg \cup DOMAIN november_avg |->
            LET mar == SeriesGet(march_avg, y, NaN)
                nov == SeriesGet(november_avg, y, NaN)
            IN  [March |-> mar, November |-> nov,
                 Difference |-> Minus(mar, nov),
                 ColderMonth |-> ColderMonth(Minus(mar, nov))]]

CompareMarchNovember ==
    /\ "compare" \notin agg_ran
    /\ IF ~agg_exists
       THEN Ends("compare", NotFoundExit, {}) /\ UNCHANGED cmpVars
       ELSE /\ comparison' = Comparison(agg_df)
            /\ colder_counts' =
                  [November |-> Cardinality({y \in DOMAIN Comparison(agg_df) :
                                    Comparison(agg_df)[y].ColderMonth = "November"}),
                   March |-> Cardinality({y \in DOMAIN Comparison(agg_df) :
                                    Comparison(agg_df)[y].ColderMonth = "March"}),
                   years |-> Cardinality(DOMAIN Comparison(agg_df))]
            /\ Ends("compare", Ended(0, "report", ""),
                    {"march_vs_november_comparison.png"})
    /\ UNCHANGED <<notAggVars, aggInVars, coldVars, extremeVars, janVars, doyVars, windVars>>

CmpDays == {<<2024, 3, 1>>, <<2024, 3, 2>>, <<2024, 11, 1>>, <<2025, 3, 1>>,
            <<2025, 11, 1>>}

\* (max_temp_c, min_temp_c); the first and the last have the same average
CmpTemps == {<<3, -2>>, <<-6, -12>>, <<4, -3>>}

CmpInit ==
    /\ agg_df \in DatasetsOver(CmpDays, CmpTemps)
    /\ agg_exists = TRUE
    /\ agg_has_wind = FALSE
    /\ fetch_csv_exists = FALSE
    /\ AggNothingRan
    /\ MergeParked
    /\ RtParked /\ DayParked /\ FetchParked
    /\ UpdParked

CmpNext == CompareMarchNovember

CmpSpec == CmpInit /\ [][CmpNext]_vars

----------------------------------------------------------------------------
(* plot_monthly_average_temp.py, plot_yearly_high_low_average.py *)

\* a day of year that takes every February to have 28 days
DayOfYearNoLeap(date) ==
    LET F[m \in 0..12] == IF m = 0 THEN 0 ELSE F[m - 1] + MonthRange(2023, m)
    IN  F[date[2] - 1] + date[3]

\* df['date'].dt.dayofyear
DayOfYear(date) ==
    LET F[m \in 0..12] == IF m = 0 THEN 0 ELSE F[m - 1] + MonthRange(date[1], m)
    IN  F[date[2] - 1] + date[3]

\* df.groupby('day_of_year')[column].mean()
GroupByDayOfYearMean(df, column, scale) ==
    [k \in {DayOfYear(df[i].date) : i \in 1..Len(df)} |->
        MeanOf(column, {i \in 1..Len(df) : DayOfYear(df[i].date) = k}, scale)]

PlotMonthlyAverageTemp ==
    /\ "monthly_average" \notin agg_ran
    /\ IF ~agg_exists
       THEN Ends("monthly_average", NotFoundExit, {}) /\ UNCHANGED daily_avg
       ELSE /\ daily_avg' = GroupByDayOfYearMean(agg_df, AvgTemp2(agg_df), 2)
            /\ Ends("monthly_average", Ended(0, "report", ""),
                    {"monthly_average_temperature.png"})
    /\ UNCHANGED <<notAggVars, aggInVars, coldVars, extremeVars, janVars, cmpVars,
                   daily_stats, windVars>>

PlotYearlyHighLowAverage ==
    /\ "yearly_high_low" \notin agg_ran
    /\ IF ~agg_exists
       THEN Ends("yearly_high_low", NotFoundExit, {}) /\ UNCHANGED daily_stats
       ELSE /\ daily_stats' =
                  [k \in {DayOfYear(agg_df[i].date) : i \in 1..Len(agg_df)} |->
                      [max_temp_c |->
                          GroupByDayOfYearMean(agg_df, Column(agg_df, "max_temp_c"),
                                               1)[k],
                       min_temp_c |->
                          GroupByDayOfYearMean(agg_df, Column(agg_df, "min_temp_c"),
                                               1)[k]]]
            /\ Ends("yearly_high_low", Ended(0, "report", ""),
                    {"yearly_high_low_average.png"})
    /\ UNCHANGED <<notAggVars, aggInVars, coldVars, extremeVars, janVars, cmpVars,
                   daily_avg, windVars>>

\* a script that only draws: the existence check, then the plot of its input
Draws(name, exists, file) ==
    /\ name \notin agg_ran
    /\ IF ~exists THEN Ends(name, NotFoundExit, {})
       ELSE Ends(name, Ended(0, "report", ""), {file})
    /\ UNCHANGED <<notAggVars, aggInVars, coldVars, extremeVars, janVars, cmpVars,
                   doyVars, windVars>>

\* visualize_temperature.py reads digby_temperature_2023-2025.csv
VisualizeTemperature ==
    Draws("visualize_temperature", fetch_csv_exists, "digby_temperature_plot.png")

\* visualize_by_year.py
VisualizeByYear ==
    Draws("visualize_by_year", agg_exists, "digby_temperature_by_year.png")

\* plot_interactive_by_year.py
PlotInteractiveByYear ==
    Draws("interactive_by_year", agg_exists,
          "digby_temperature_by_year_interactive.html")

\* days that fall on the same day of year in a leap and a common year, or
\* on different ones with the same month and day
DoyDays == {<<2024, 2, 29>>, <<2025, 3, 1>>, <<2024, 3, 1>>, <<2024, 12, 30>>,
            <<2024, 12, 31>>, <<2025, 12, 31>>}

DoyTemps == {<<3, -2>>, <<-6, -12>>}

DoyInit ==
    /\ agg_df \in DatasetsOver(DoyDays, DoyTemps)
    /\ agg_exists = TRUE
    /\ agg_has_wind = FALSE
    /\ fetch_csv_exists = FALSE
    /\ AggNothingRan
    /\ MergeParked
    /\ RtParked /\ DayParked /\ FetchParked
    /\ UpdParked

DoyNext ==
    \/ PlotMonthlyAverageTemp \/ PlotYearlyHighLowAverage
    \/ VisualizeByYear \/ PlotInteractiveByYear

DoySpec == DoyInit /\ [][DoyNext]_vars

----------------------------------------------------------------------------
(* visualize_wind.py, plot_interactive_wind.py *)

\* a row of a dataset that has the wind columns
WindRec(d, speed, direction) ==
    [date |-> d, max_temp_c |-> 3, min_temp_c |-> -2,
     wind_speed_kmph |-> speed, wind_direction |-> direction]

\* `if 'wind_speed_kmph' not in df.columns:` never taken
MissingWindNever(has_wind) == FALSE

\* `if 'wind_speed_kmph' not in df.columns:` (visualize_wind line 32,
\* plot_interactive_wind line 30)
MissingWind(has_wind) == ~has_wind

\* df['wind_speed_kmph'] of a frame without the column
KeyError == Ended(1, "traceback", "KeyError")

\* rows.groupby(['year', 'month'])['wind_speed_kmph'].mean() over the rows idx
WindMonthlyAvg(df, idx) ==
    [ym \in {<<YearOf(df[i]), MonthOf(df[i])>> : i \in idx} |->
        MeanOf(Column(df, "wind_speed_kmph"),
               {i \in idx : <<YearOf(df[i]), MonthOf(df[i])>> = ym}, 1)]

\* the keys of direction_map, visualize_wind lines 93-98
ValidDirections ==
    {"N", "NNE", "NE", "ENE", "E", "ESE", "SE", "SSE",
     "S", "SSW", "SW", "WSW", "W", "WNW", "NW", "NNW"}

VisualizeWind ==
    /\ "visualize_wind" \notin agg_ran
    /\ IF ~agg_exists
       THEN Ends("visualize_wind", NotFoundExit, {}) /\ UNCHANGED wind_monthly_avg
       ELSE IF MissingWind(agg_has_wind)
       THEN Ends("visualize_wind", Ended(1, "error", ""), {})
            /\ UNCHANGED wind_monthly_avg
       ELSE IF ~agg_has_wind
       THEN Ends("visualize_wind", KeyError, {}) /\ UNCHANGED wind_monthly_avg
       ELSE LET df_wind == {i \in 1..Len(agg_df) : agg_df[i].wind_speed_kmph > 0}
                df_direction == {i \in df_wind :
                                    agg_df[i].wind_direction \in ValidDirections}
            IN  IF df_wind = {}
                THEN Ends("visualize_wind", Ended(1, "error", ""), {})
                     /\ UNCHANGED wind_monthly_avg
                ELSE /\ wind_monthly_avg' = <<WindMonthlyAvg(agg_df, df_wind)>>
                     /\ Ends("visualize_wind", Ended(0, "report", ""),
                             {"digby_wind_speed.png"} \cup
                             (IF df_direction # {} THEN {"digby_wind_rose.png"}
                              ELSE {}))
    /\ UNCHANGED <<notAggVars, aggInVars, coldVars, extremeVars, janVars, cmpVars,
                   doyVars, iwind_monthly_avg>>

PlotInteractiveWind ==
    /\ "interactive_wind" \notin agg_ran
    /\ IF ~agg_exists
       THEN Ends("interactive_wind", NotFoundExit, {}) /\ UNCHANGED iwind_monthly_avg
       ELSE IF MissingWind(agg_has_wind)
       THEN Ends("interactive_wind", Ended(1, "error", ""), {})
            /\ UNCHANGED iwind_monthly_avg
       ELSE IF ~agg_has_wind
       THEN Ends("interactive_wind", KeyError, {}) /\ UNCHANGED iwind_monthly_avg
       ELSE /\ iwind_monthly_avg' = <<WindMonthlyAvg(agg_df, 1..Len(agg_df))>>
            /\ Ends("interactive_wind", Ended(0, "report", ""),
                    {"digby_wind_speed_interactive.html",
                     "digby_wind_gusts_interactive.html"})
    /\ UNCHANGED <<notAggVars, aggInVars, coldVars, extremeVars, janVars, cmpVars,
                   doyVars, wind_monthly_avg>>

WindDays == {<<2024, 1, 1>>, <<2024, 1, 2>>, <<2024, 2, 1>>, <<2025, 1, 1>>}

\* (wind_speed_kmph, wind_direction): a day without hourly data as update
\* lines 144-157 store it, a calm day, two windy days
WindValues == {<<0, "">>, <<0, "N">>, <<10, "N">>, <<20, "SW">>}

WindDatasets ==
    UNION {{[i \in 1..Cardinality(S) |->
                WindRec(AscSeq(S)[i], f[AscSeq(S)[i]][1], f[AscSeq(S)[i]][2])]
            : f \in [S -> WindValues]} : S \in SUBSET WindDays}

WindInit ==
    /\ \/ agg_has_wind = TRUE /\ agg_df \in WindDatasets
       \/ agg_has_wind = FALSE /\ agg_df \in DatasetsOver(WindDays, {<<3, -2>>})
    /\ agg_exists = TRUE
    /\ fetch_csv_exists = FALSE
    /\ AggNothingRan
    /\ MergeParked
    /\ RtParked /\ DayParked /\ FetchParked
    /\ UpdParked

WindNext == VisualizeWind \/ PlotInteractiveWind

WindSpec == WindInit /\ [][WindNext]_vars

----------------------------------------------------------------------------
(* Saving and loading: df_combined.to_csv(CSV_FILE, index=False) at update   *)
(* line 196, then pd.read_csv and pd.to_datetime at lines 46-47 of the next  *)
(* run                                                                       *)

\* A value held in a frame: a string, a number (int64 and float64 are not
\* told apart) or a timestamp, with the text str() gives for it.  NaN is the
\* missing number, NaT the missing timestamp.
Str(text) == [type |-> "str", repr |-> text]
Num(text) == [type |-> "num", repr |-> text]
Timestamp(text) == [type |-> "datetime", repr |-> text]
NaNValue == Num("nan")
NaTValue == Timestamp("NaT")

\* the texts read_csv takes for numbers
NumericText == {"3", "5"}

\* to_csv: a cell is the text of the value; a missing value is written as
\* the empty cell (na_rep='')
ToCsvCell(v) == IF v \in {NaNValue, NaTValue} THEN "" ELSE v.repr

ToCsv(df) == [i \in 1..Len(df) |-> [c \in DOMAIN df[i] |-> ToCsvCell(df[i][c])]]

\* read_csv infers a type per column: a column whose non-empty cells are all
\* numeric text becomes a number column, any other column keeps its cells as
\* strings; an empty cell is NaN in both
ReadCsvCell(file, i, c) ==
    IF file[i][c] = "" THEN NaNValue
    ELSE IF \A k \in 1..Len(file) : file[k][c] = "" \/ file[k][c] \in NumericText
         THEN Num(file[i][c])
         ELSE Str(file[i][c])

\* pd.to_datetime on the date column
ToDatetime(v) == IF v = NaNValue THEN NaTValue ELSE Timestamp(v.repr)

\* lines 46-47
ReadCsv(file) ==
    [i \in 1..Len(file) |->
        [c \in DOMAIN file[i] |->
            IF c = "date" THEN ToDatetime(ReadCsvCell(file, i, c))
            ELSE ReadCsvCell(file, i, c)]]

\* a row as read from the file by an earlier run: the optional fields are
\* numbers or strings, NaN where the file had nothing
LoadedRows(date) ==
    {[date |-> Timestamp(date), max_temp_c |-> Num("3"), uv_index |-> uv,
      wind_direction |-> wd] :
        uv \in {Num("5"), NaNValue}, wd \in {Str("N"), NaNValue}}

\* a row as lines 147-160 build it from the API response, whose values are
\* strings: uv_index is day.get('uvIndex', ''), wind_direction is
\* hourly[0].get('winddir16Point', '')
NewRows(date) ==
    {[date |-> Timestamp(date), max_temp_c |-> Num("3"), uv_index |-> uv,
      wind_direction |-> wd] :
        uv \in {Str("5"), Str("")}, wd \in {Str("N"), Str("")}}

RtDates == <<"2025-01-01", "2025-01-02", "2025-01-03">>

\* non-empty frames in date order, each row loaded or new
RtDatasets ==
    UNION {{f \in [1..n -> UNION {LoadedRows(RtDates[k]) \cup NewRows(RtDates[k]) :
                                      k \in 1..Len(RtDates)}] :
                \A i \in 1..n : f[i].date = Timestamp(RtDates[Len(RtDates) - n + i])}
           : n \in 1..Len(RtDates)}

RtInit ==
    /\ rt_D \in RtDatasets
    /\ rt_file = <<>>
    /\ rt_loaded = <<>>
    /\ rt_pc = "memory"
    /\ MergeParked /\ UpdParked /\ AggParked /\ DayParked /\ FetchParked

\* update line 196
RtSave ==
    /\ rt_pc = "memory"
    /\ rt_file' = ToCsv(rt_D)
    /\ rt_pc' = "saved"
    /\ UNCHANGED <<notRtVars, rt_D, rt_loaded>>

\* update lines 46-47 of the next run
RtLoad ==
    /\ rt_pc = "saved"
    /\ rt_loaded' = ReadCsv(rt_file)
    /\ rt_pc' = "loaded"
    /\ UNCHANGED <<notRtVars, rt_D, rt_file>>

RtNext == RtSave \/ RtLoad

RtSpec == RtInit /\ [][RtNext]_vars

----------------------------------------------------------------------------
(* Every entry point, started without its input file *)

EntryInit ==
    /\ today \in UpdDays
    /\ csv_exists = FALSE /\ csv_header = FALSE /\ csv_rows = <<>>
    /\ pc = "start"
    /\ df_existing = <<>> /\ last_date = NaT /\ start_date = NaT
    /\ months_to_fetch = <<>> /\ fetched = 0 /\ new_records = <<>>
    /\ df_combined = <<>> /\ written = 0
    /\ exit_status = -1
    /\ outcome = "running"
    /\ agg_df = <<>>
    /\ agg_exists = csv_exists
    /\ agg_has_wind = FALSE
    /\ fetch_csv_exists \in BOOLEAN
    /\ AggNothingRan
    /\ MergeParked
    /\ RtParked /\ DayParked /\ FetchParked

EntryNext ==
    \/ NotFound
    \/ AnalyzeColdDays \/ AnalyzeExtremeColdDays \/ AnalyzeJanuaryPatterns
    \/ CompareMarchNovember
    \/ PlotMonthlyAverageTemp \/ PlotYearlyHighLowAverage
    \/ VisualizeTemperature \/ VisualizeByYear \/ PlotInteractiveByYear
    \/ VisualizeWind \/ PlotInteractiveWind

EntrySpec == EntryInit /\ [][EntryNext]_vars

----------------------------------------------------------------------------
(* Properties of the analyses, checked under AggSpec *)

\* the number of rows of year y that a mapping by_year should count
CountIn(df, y, Pred(_)) ==
    Cardinality({i \in 1..Len(df) : YearOf(df[i]) = y /\ Pred(df[i])})

DenseCount(df, by_year, Pred(_)) ==
    /\ DOMAIN by_year = {YearOf(df[i]) : i \in 1..Len(df)}
    /\ \A y \in DOMAIN by_year : by_year[y] = CountIn(df, y, Pred)

\* C9: the per-year mapping returned by analyze_cold_days and
\* analyze_extreme_cold_days has an entry for every year that has a record
\* in the dataset, the number of that year's records below the threshold,
\* 0 for a year without one.
C9_CountByYearDense ==
    /\ "cold" \in agg_ran =>
          DenseCount(agg_df, cold_days_by_year, LAMBDA r : r.min_temp_c < -10)
    /\ "extreme" \in agg_ran =>
          DenseCount(agg_df, extreme_cold_by_year, LAMBDA r : r.max_temp_c < -10)

RECURSIVE AddDays(_, _)
AddDays(d, k) == IF k = 0 THEN d ELSE AddDays(AddDay(d), k - 1)

\* date d is the date of a January record of year y that satisfies the
\* predicate of the streak scan
ColdJanuaryDay(df, y, d) ==
    \E i \in 1..Len(df) :
        /\ df[i].date = d /\ YearOf(df[i]) = y /\ MonthOf(df[i]) = 1
        /\ df[i].max_temp_c < -5

\* C10: every reported streak (start_date, length) is a maximal run of
\* consecutive calendar dates: start_date .. start_date + length - 1 are all
\* dates of records of the period that satisfy the predicate, and neither
\* the day before nor the day after is.
C10_StreaksAreMaximalRuns ==
    "january" \in agg_ran =>
        \A y \in DOMAIN streaks :
            \A n \in 1..Len(streaks[y]) :
                LET start == streaks[y][n][1]
                    length == streaks[y][n][2]
                IN  /\ length >= 1
                    /\ \A k \in 0..(length - 1) :
                          ColdJanuaryDay(agg_df, y, AddDays(start, k))
                    /\ ~ColdJanuaryDay(agg_df, y, AddDays(start, length))
                    /\ ~\E p \in AggDays :
                          AddDay(p) = start /\ ColdJanuaryDay(agg_df, y, p)

----------------------------------------------------------------------------
(* Properties of the streak scan, checked under JanSpec *)

\* row i of the period exists and satisfies the predicate of the scan
ColdRow(year_data, i) ==
    i \in 1..Len(year_data) /\ year_data[i].max_temp_c < -5

\* the rows at which a run stops: a satisfying row followed by a row that
\* does not satisfy, or by the end of the period
RunEnds(year_data) ==
    {i \in 1..Len(year_data) : ColdRow(year_data, i) /\ ~ColdRow(year_data, i + 1)}

\* the first row of the run that stops at row e
RunStart(year_data, e) ==
    CHOOSE s \in 1..e :
        /\ \A k \in s..e : ColdRow(year_data, k)
        /\ ~ColdRow(year_data, s - 1)

RECURSIVE SumLengths(_)
SumLengths(st) == IF st = <<>> THEN 0 ELSE st[1][2] + SumLengths(Tail(st))

\* max_temp_c -6, -7, -8, 3, -6, -6 on 2024-01-01 .. 2024-01-06
StreakCase ==
    <<Rec(<<2024, 1, 1>>, -6, -12), Rec(<<2024, 1, 2>>, -7, -13),
      Rec(<<2024, 1, 3>>, -8, -14), Rec(<<2024, 1, 4>>, 3, -2),
      Rec(<<2024, 1, 5>>, -6, -12), Rec(<<2024, 1, 6>>, -6, -12)>>

\* C11: the scan reports one streak for every place where a run of
\* satisfying records is followed by a non-satisfying record or by the end
\* of the period, with the run's first date and its number of records, in
\* order; the lengths sum to the number of satisfying records; and the six
\* January days -6, -7, -8, 3, -6, -6 give (01-01, 3), (01-05, 2).
C11_StreaksFlushedAtRunEnds ==
    "january" \in agg_ran =>
        /\ \A y \in DOMAIN streaks :
              LET year_data == JanuaryOf(agg_df, y)
                  ends == SortedInts(RunEnds(year_data))
              IN  /\ Len(streaks[y]) = Len(ends)
                  /\ \A n \in 1..Len(ends) :
                        LET s == RunStart(year_data, ends[n])
                        IN  streaks[y][n] = <<year_data[s].date, ends[n] - s + 1>>
                  /\ SumLengths(streaks[y]) =
                        Cardinality({i \in 1..Len(year_data) : ColdRow(year_data, i)})
        /\ agg_df = StreakCase =>
              streaks[2024] = <<<<<<2024, 1, 1>>, 3>>, <<<<2024, 1, 5>>, 2>>>>

\* the six days of the example have been scanned: the second streak is the
\* one still open when the rows end
C11_Witness ==
    /\ "january" \in agg_ran
    /\ agg_df = StreakCase
    /\ Len(streaks[2024]) = 2
    /\ streaks[2024][2] = <<<<2024, 1, 5>>, 2>>

----------------------------------------------------------------------------
(* Properties of the cold-day reports, checked under ColdSpec *)

\* the reported record is a row of the subset with the smallest key, and the
\* reported date is the date of that row
IsExtremeOf(reported, df, subset, name) ==
    \E i \in subset :
        /\ \A j \in subset : df[i][name] <= df[j][name]
        /\ reported.value = df[i][name]
        /\ reported.date = df[i].date

\* 2024-01-10 with min_temp_c -11 and 2024-01-11 with min_temp_c -9
ColdCase == <<Rec(<<2024, 1, 10>>, -3, -11), Rec(<<2024, 1, 11>>, 0, -9)>>

\* C12: for a non-empty filtered subset the coldest record reported is a
\* record of the subset whose key is the minimum over the subset, with that
\* record's own date; for 2024-01-10 (min -11) and 2024-01-11 (min -9) and
\* the filter min_temp_c < -10 the count by year is {2024: 1} and the
\* coldest record is the one of 2024-01-10.
C12_ExtremeIsMinimumOfSubset ==
    /\ ("cold" \in agg_ran /\ MinBelow(agg_df, -10) # <<>>) =>
          /\ Len(cold_coldest) = 1
          /\ IsExtremeOf(cold_coldest[1], agg_df,
                         {i \in 1..Len(agg_df) : agg_df[i].min_temp_c < -10},
                         "min_temp_c")
    /\ ("extreme" \in agg_ran /\ MaxBelow(agg_df, -10) # <<>>) =>
          /\ Len(extreme_coldest) = 1
          /\ IsExtremeOf(extreme_coldest[1], agg_df,
                         {i \in 1..Len(agg_df) : agg_df[i].max_temp_c < -10},
                         "max_temp_c")
    /\ ("cold" \in agg_ran /\ agg_df = ColdCase) =>
          /\ cold_days_by_year = (2024 :> 1)
          /\ cold_coldest = <<[value |-> -11, date |-> <<2024, 1, 10>>]>>

\* both reports have run over a dataset whose subsets hold rows with
\* different keys, the smallest one not in the first row of the subset
C12_Witness ==
    /\ agg_ran = {"cold", "extreme"}
    /\ Len(MinBelow(agg_df, -10)) >= 2
    /\ Len(MaxBelow(agg_df, -10)) >= 2
    /\ cold_coldest[1].value < MinBelow(agg_df, -10)[1].min_temp_c
    /\ extreme_coldest[1].value < MaxBelow(agg_df, -10)[1].max_temp_c

SparseMonthCount(by_month, df, subset) ==
    /\ \A m \in 1..12 :
          LET n == Cardinality({i \in subset : MonthOf(df[i]) = m})
          IN  /\ m \in DOMAIN by_month <=> n >= 1
              /\ m \in DOMAIN by_month => by_month[m] = n
    /\ DOMAIN by_month \subseteq 1..12
    /\ SumOver(by_month, DOMAIN by_month) =
          Cardinality(subset)

\* C20: the month breakdown of a subset has an entry for month m exactly
\* when a record of the subset falls in month m, its value is the number of
\* those records, other months are left out, and the counts sum to the size
\* of the subset.
C20_MonthBreakdownSparse ==
    /\ ("cold" \in agg_ran /\ MinBelow(agg_df, -10) # <<>>) =>
          SparseMonthCount(cold_by_month, agg_df,
                           {i \in 1..Len(agg_df) : agg_df[i].min_temp_c < -10})
    /\ ("extreme" \in agg_ran /\ MaxBelow(agg_df, -10) # <<>>) =>
          SparseMonthCount(extreme_by_month, agg_df,
                           {i \in 1..Len(agg_df) : agg_df[i].max_temp_c < -10})

\* a subset with two rows in one month, one in another, and none in March
\* although the dataset has a March row
C20_Witness ==
    /\ "cold" \in agg_ran
    /\ 1 \in DOMAIN cold_by_month /\ cold_by_month[1] = 2
    /\ 2 \in DOMAIN cold_by_month
    /\ 3 \notin DOMAIN cold_by_month
    /\ \E i \in 1..Len(agg_df) : MonthOf(agg_df[i]) = 3

----------------------------------------------------------------------------
(* Property of the March-November comparison, checked under CmpSpec *)

\* the rows of year y and the given month, and the sum of twice their
\* avg_temp_c
RowsOf(df, y, month) == {i \in 1..Len(df) : YearOf(df[i]) = y /\ MonthOf(df[i]) = month}

Sum2(df, y, month) == SumOver([i \in RowsOf(df, y, month) |-> Avg2(df[i])],
                              RowsOf(df, y, month))

\* the March mean of year y is greater than / less than / equal to its
\* November mean; a year without records of one of the months has no mean
\* for it, so none of the three holds
MarchAbove(df, y) ==
    /\ RowsOf(df, y, 3) # {} /\ RowsOf(df, y, 11) # {}
    /\ Sum2(df, y, 3) * Cardinality(RowsOf(df, y, 11)) >
           Sum2(df, y, 11) * Cardinality(RowsOf(df, y, 3))

MarchBelow(df, y) ==
    /\ RowsOf(df, y, 3) # {} /\ RowsOf(df, y, 11) # {}
    /\ Sum2(df, y, 3) * Cardinality(RowsOf(df, y, 11)) <
           Sum2(df, y, 11) * Cardinality(RowsOf(df, y, 3))

MarchEqual(df, y) ==
    /\ RowsOf(df, y, 3) # {} /\ RowsOf(df, y, 11) # {}
    /\ Sum2(df, y, 3) * Cardinality(RowsOf(df, y, 11)) =
           Sum2(df, y, 11) * Cardinality(RowsOf(df, y, 3))

\* C14: every year of the comparison is labelled 'November' exactly when its
\* March mean is above its November mean, 'March' exactly when it is below,
\* and 'Same' exactly when the two means are equal, the years with records
\* for only one of the two months included.
C14_LabelBySignOfMeans ==
    "compare" \in agg_ran =>
        \A y \in DOMAIN comparison :
            /\ comparison[y].ColderMonth = "November" <=> MarchAbove(agg_df, y)
            /\ comparison[y].ColderMonth = "March" <=> MarchBelow(agg_df, y)
            /\ comparison[y].ColderMonth = "Same" <=> MarchEqual(agg_df, y)

----------------------------------------------------------------------------
(* Property of the day-of-year profiles, checked under DoySpec *)

\* the position of a date in its year: the number of calendar dates of the
\* year up to and including it
Ordinal(date) ==
    Cardinality({md \in (1..12) \X (1..31) :
                    /\ md[2] <= MonthRange(date[1], md[1])
                    /\ md[1] < date[2] \/ (md[1] = date[2] /\ md[2] <= date[3])})

\* profile maps each day of year that has a record to the mean of the metric
\* over exactly the records of that day of year
IsProfile(profile, df, column, scale) ==
    /\ DOMAIN profile = {Ordinal(df[i].date) : i \in 1..Len(df)}
    /\ \A k \in DOMAIN profile :
          LET rows == {i \in 1..Len(df) : Ordinal(df[i].date) = k}
          IN  profile[k] = <<SumOver(column, rows),
                             scale * Cardinality(rows)>>

\* C15: the day-of-year profile maps each day of year k that has a record to
\* the mean of the metric over exactly the records whose date is the k-th day
\* of its year, whatever the year; 366 has an entry only when there is a
\* December 31 record of a leap year, and only those records go into it.
C15_DayOfYearProfile ==
    /\ "monthly_average" \in agg_ran =>
          /\ IsProfile(daily_avg, agg_df,
                       [i \in 1..Len(agg_df) |->
                           agg_df[i].max_temp_c + agg_df[i].min_temp_c], 2)
          /\ 366 \in DOMAIN daily_avg <=>
                \E i \in 1..Len(agg_df) :
                    IsLeap(YearOf(agg_df[i])) /\ agg_df[i].date[2] = 12
                        /\ agg_df[i].date[3] = 31
    /\ "yearly_high_low" \in agg_ran =>
          /\ IsProfile([k \in DOMAIN daily_stats |-> daily_stats[k].max_temp_c],
                       agg_df, [i \in 1..Len(agg_df) |-> agg_df[i].max_temp_c], 1)
          /\ IsProfile([k \in DOMAIN daily_stats |-> daily_stats[k].min_temp_c],
                       agg_df, [i \in 1..Len(agg_df) |-> agg_df[i].min_temp_c], 1)

\* both profiles are built; 2024-02-29 and 2025-03-01 share day 60 with
\* different temperatures, 2024-12-30 and 2025-12-31 share day 365, and
\* 2024-12-31 is alone in day 366
C15_Witness ==
    /\ agg_ran = {"monthly_average", "yearly_high_low"}
    /\ Len(agg_df) = 6
    /\ agg_df[1].max_temp_c # agg_df[5].max_temp_c
    /\ daily_avg[60][2] = 4
    /\ daily_avg[365][2] = 4
    /\ daily_avg[366][2] = 2
    /\ 61 \in DOMAIN daily_stats

----------------------------------------------------------------------------
(* Property of the wind scripts, checked under WindSpec *)

\* the files a script writes
WindFiles(name) ==
    IF name = "visualize_wind" THEN {"digby_wind_speed.png", "digby_wind_rose.png"}
    ELSE {"digby_wind_speed_interactive.html", "digby_wind_gusts_interactive.html"}

\* C16: when the dataset has no wind_speed_kmph column, visualize_wind and
\* plot_interactive_wind each stop with their missing-column error (message
\* and exit status 1) before computing a wind aggregate or writing an output
\* file; no zero-filled or empty result is produced.
C16_NoWindColumnFails ==
    ~agg_has_wind =>
        /\ "visualize_wind" \in agg_ran =>
              /\ agg_exit["visualize_wind"] = Ended(1, "error", "")
              /\ wind_monthly_avg = <<>>
              /\ artifacts \cap WindFiles("visualize_wind") = {}
        /\ "interactive_wind" \in agg_ran =>
              /\ agg_exit["interactive_wind"] = Ended(1, "error", "")
              /\ iwind_monthly_avg = <<>>
              /\ artifacts \cap WindFiles("interactive_wind") = {}

\* both scripts have run on a dataset with rows and no wind columns
C16_Witness ==
    /\ ~agg_has_wind
    /\ Len(agg_df) >= 2
    /\ agg_ran = {"visualize_wind", "interactive_wind"}

----------------------------------------------------------------------------
(* Property of loading, checked under LoadSpec *)

\* the row cannot be parsed into a record: it has no date
Unparseable(r) == r.date = NaT

HasUnparseable(df) == \E i \in 1..Len(df) : Unparseable(df[i])

\* C17: a persisted dataset with a row that cannot be parsed into a record
\* is rejected as a whole when it is loaded: the load returns no dataset, and
\* nothing of it is merged or saved afterwards.
C17_CorruptRowFailsLoad ==
    /\ ~HasUnparseable(df_existing)
    /\ ~HasUnparseable(df_combined)
    /\ pc \in {"write_header", "write_rows"} => ~HasUnparseable(csv_rows)

----------------------------------------------------------------------------
(* Property of the entry points, checked under EntrySpec *)

\* the input file of the script is missing
InputMissing(name) ==
    IF name = "visualize_temperature" THEN ~fetch_csv_exists ELSE ~agg_exists

\* C18: every entry point started without its input dataset file exits with
\* a non-zero status and a message of its own, and computes or writes
\* nothing: no aggregate, no report, no output file.
C18_MissingInputExitsWithMessage ==
    /\ (pc = "done" /\ ~csv_exists) =>
          /\ exit_status # 0 /\ outcome = "not_found"
          /\ df_existing = <<>> /\ df_combined = <<>> /\ csv_rows = <<>>
    /\ \A name \in agg_ran :
          InputMissing(name) =>
              /\ agg_exit[name].status # 0
              /\ agg_exit[name].said = "error"
    /\ ~agg_exists => NoResults
    /\ (~agg_exists /\ ~fetch_csv_exists) => artifacts = {}

----------------------------------------------------------------------------
(* Property of saving and loading, checked under RtSpec *)

\* C19: a non-empty dataset that is saved and loaded back is equal to the
\* one saved, field for field, the records with empty or absent optional
\* fields (uv_index, wind_direction) included.
C19_SaveLoadRoundTrip ==
    rt_pc = "loaded" =>
        /\ Len(rt_loaded) = Len(rt_D)
        /\ \A i \in 1..Len(rt_D) :
              \A c \in DOMAIN rt_D[i] : rt_loaded[i][c] = rt_D[i][c]

----------------------------------------------------------------------------
(* The wind fields of a record, built from one day of the API response:     *)
(* update_digby_temperature.py lines 140-160                                *)

\* the most sub-daily readings a day of the response is given
MaxReadings == 2

\* a dict of the response: a function from the keys it has to their texts
Get(dict, key, default) == IF key \in DOMAIN dict THEN dict[key] ELSE default

\* the truth value Python gives a text: only the empty text is false (the
\* text "0" is true)
Truthy(text) == text # ""

\* float() on the texts the response carries
Float(text) == CASE text = "0" -> 0 [] text = "10" -> 10 [] text = "20" -> 20
                 [] text = "30" -> 30

RECURSIVE SumSeq(_)
SumSeq(s) == IF s = <<>> THEN 0 ELSE s[1] + SumSeq(Tail(s))

\* round(x, 1) of x = total / n, kept in tenths; a tie goes to the even tenth
Round1(total, n) ==
    LET q == (10 * total) \div n
        r == (10 * total) % n
    IN  IF 2 * r < n THEN q
        ELSE IF 2 * r > n THEN q + 1
        ELSE IF q % 2 = 0 THEN q ELSE q + 1

\* line 144: the readings that have a true windspeedKmph, as numbers
WindSpeeds(hourly) ==
    LET kept == SelectSeq(hourly, LAMBDA h : Truthy(Get(h, "windspeedKmph", "")))
    IN  [i \in 1..Len(kept) |-> Float(kept[i]["windspeedKmph"])]

\* line 145 and line 157, in tenths of km/h
AvgWindSpeed(hourly) ==
    LET wind_speeds == WindSpeeds(hourly)
    IN  IF wind_speeds # <<>> THEN Round1(SumSeq(wind_speeds), Len(wind_speeds)) ELSE 0

\* line 159: the gust of the FIRST reading, 0 if there is no reading or the
\* first one has no true WindGustKmph
WindGust(hourly) ==
    IF hourly # <<>> /\ Truthy(Get(hourly[1], "WindGustKmph", ""))
    THEN Float(Get(hourly[1], "WindGustKmph", "0"))
    ELSE 0

\* line 158
WindDirection(hourly) ==
    IF hourly # <<>> THEN Get(hourly[1], "winddir16Point", "") ELSE ""

\* line 141: a day without the key counts as one reading with no fields
Hourly(d) == Get(d, "hourly", << <<>> >>)

\* the texts a reading of the response may carry under each key
ReadingTexts ==
    [WindGustKmph |-> {"", "0", "10", "30"}, windspeedKmph |-> {"10"},
     winddir16Point |-> {"N"}]

\* the readings a response may carry: every key may be missing
Readings ==
    UNION {{h \in [keys -> {"", "0", "10", "30", "N"}] :
               \A key \in keys : h[key] \in ReadingTexts[key]}
           : keys \in SUBSET DOMAIN ReadingTexts}

ApiDays ==
    {<<>>} \cup {[k \in {"hourly"} |-> hourly] : hourly \in SeqsUpTo(Readings, MaxReadings)}

DayInit ==
    /\ day \in ApiDays
    /\ record = <<>>
    /\ MergeParked /\ UpdParked /\ AggParked /\ RtParked /\ FetchParked

\* lines 141-160 for one day inside the window
BuildRecord ==
    /\ record = <<>>
    /\ LET hourly == Hourly(day)
       IN  record' = [wind_speed_kmph |-> AvgWindSpeed(hourly),
                      wind_direction |-> WindDirection(hourly),
                      wind_gust_kmph |-> WindGust(hourly)]
    /\ UNCHANGED <<notDayVars, day>>

DayNext == BuildRecord

DaySpec == DayInit /\ [][DayNext]_vars

\* the gust texts of the day's readings that count as readings
GustReadings ==
    {i \in 1..Len(Hourly(day)) : Truthy(Get(Hourly(day)[i], "WindGustKmph", ""))}

\* C21: the record's wind_gust_kmph is the maximum gust over all the
\* readings of the date, and 0 when the date has no gust reading
C21_GustIsPeakOfReadings ==
    record # <<>> =>
        /\ GustReadings = {} => record.wind_gust_kmph = 0
        /\ GustReadings # {} =>
              /\ \A i \in GustReadings :
                    Float(Hourly(day)[i]["WindGustKmph"]) <= record.wind_gust_kmph
              /\ \E i \in GustReadings :
                    Float(Hourly(day)[i]["WindGustKmph"]) = record.wind_gust_kmph

----------------------------------------------------------------------------
(* The update run over many days: LiveSpec.  No process dies in the save, a  *)
(* started run goes on to its end, the script is run again and again, on    *)
(* later days as long as there are any, and the service answers a month in  *)
(* full again and again.                                                    *)

\* a step of the run itself (lines 38-219); with no process dying in the
\* save, no file is left without its header
RunStep ==
    \/ NotFound \/ ReadExisting \/ FetchMonth \/ NoNewData \/ MergeNew
    \/ SaveOpen \/ SaveHeader \/ SaveRow \/ SaveClose

\* the script is run again on a later day
LaterRun == NextRun /\ today' # today

\* the dates of a frame
DatesIn(df) == {df[i].date : i \in 1..Len(df)}

\* the days of the window that lie in a month
WindowDaysOf(year_month, start, now) ==
    {d \in UpdDays : <<d[1], d[2]>> = year_month /\ InWindow(d, start, now)}

\* fetch_month_data returns every day of the month that the window holds
FetchAnswered ==
    /\ FetchMonth
    /\ DatesIn(new_records') =
          DatesIn(new_records) \cup
          WindowDaysOf(months_to_fetch[fetched + 1], start_date, today)

Fairness ==
    /\ WF_vars(RunStep)
    /\ WF_vars(NextRun)
    /\ SF_vars(LaterRun)
    /\ SF_vars(FetchAnswered)

LiveNext == RunStep \/ NextRun

LiveSpec == Init /\ [][LiveNext]_vars /\ Fairness

\* a run has ended on day d with a record of d in the file: the day was not
\* over when it was observed
StoredAsToday(d) ==
    /\ pc = "done" /\ outcome \in {"saved", "up_to_date", "no_new_data"}
    /\ today = d
    /\ d \in DatesIn(csv_rows)

\* a run of a later day has fetched a record of d and saved it in place of
\* the stored one
Superseded(d) ==
    /\ DateLT(d, today)
    /\ pc = "done" /\ outcome = "saved"
    /\ \E i \in 1..Len(new_records) :
          /\ new_records[i].date = d
          /\ \E j \in 1..Len(csv_rows) : csv_rows[j] = new_records[i]

\* the days after which the model follows a later day
NotLastDay == {d \in UpdDays : \E t \in UpdDays : DateLT(d, t)}

\* C22: a record stored for a date while that date was still today is
\* superseded in a later update run: the later run requests the date again
\* and the record it fetches replaces the stored one.
C22_TodayRecordSuperseded ==
    \A d \in NotLastDay : StoredAsToday(d) ~> Superseded(d)

\* a saving run got nothing for the month of m, a day of its window, and
\* got a record of a later month
LostByFailedFetch(m) ==
    /\ pc = "done" /\ outcome = "saved"
    /\ start_date # NaT /\ InWindow(m, start_date, today)
    /\ \A i \in 1..Len(new_records) :
          <<new_records[i].date[1], new_records[i].date[2]>> # <<m[1], m[2]>>
    /\ \E i \in 1..Len(new_records) :
          /\ DateLT(m, new_records[i].date)
          /\ <<new_records[i].date[1], new_records[i].date[2]>> # <<m[1], m[2]>>

\* a run has the day m in its window, or the dataset has it
RequestedAgain(m) ==
    \/ pc = "fetch" /\ start_date # NaT /\ InWindow(m, start_date, today)
    \/ m \in DatesIn(csv_rows)

\* C23: no date is lost for good by a failed fetch: when the fetch of a
\* month of the window returns nothing and a later month's fetch succeeds,
\* a later run requests the missing month's dates again, so that the gap is
\* filled in the end.
C23_FailedMonthRequestedAgain ==
    \A m \in UpdDays : LostByFailedFetch(m) ~> RequestedAgain(m)

----------------------------------------------------------------------------
(* The update run over windows of many months: MonthsSpec *)

\* latest dates and run days more than a year apart: ends of months, a leap
\* day, two ends of a year
MonthsDays ==
    {<<2023, 11, 30>>, <<2023, 12, 31>>, <<2024, 1, 1>>, <<2024, 2, 28>>,
     <<2024, 2, 29>>, <<2024, 3, 31>>} \cup UpdDays

\* a dataset file of one row, whose date is the latest date
MonthsInit ==
    /\ MergeParked /\ AggParked /\ RtParked /\ DayParked /\ FetchParked
    /\ today \in MonthsDays
    /\ csv_exists \in BOOLEAN
    /\ csv_header = csv_exists
    /\ csv_rows \in (IF csv_exists
                     THEN {<<Rec(d, 3, -2)>> : d \in {x \in MonthsDays : DateLE(x, today)}}
                     ELSE {<<>>})
    /\ pc = "start"
    /\ df_existing = <<>> /\ last_date = NaT /\ start_date = NaT
    /\ months_to_fetch = <<>> /\ fetched = 0 /\ new_records = <<>>
    /\ df_combined = <<>> /\ written = 0
    /\ exit_status = -1
    /\ outcome = "running"

MonthsSpec == MonthsInit /\ [][UpdNext]_vars

\* the months counted from year 0
MonthIndex(year_month) == 12 * year_month[1] + year_month[2]

\* the run has listed the months of a window that has a first day
HasListed ==
    /\ start_date # NaT
    /\ \/ pc \in {"fetch", "save", "write_header", "write_rows"}
       \/ pc = "done" /\ outcome \in {"no_new_data", "key_error", "saved", "crash"}

\* C24: for a window [latest_date + 1 day, today] that is not empty,
\* months_to_fetch is exactly the (year, month) pairs from the month of
\* latest_date + 1 day to the month of today, in order and without repeats,
\* December being followed by January of the next year; the fetch loop makes
\* one request per listed month.
C24_MonthsListedOnceInOrder ==
    HasListed =>
        /\ months_to_fetch # <<>>
        /\ months_to_fetch[1] = <<start_date[1], start_date[2]>>
        /\ months_to_fetch[Len(months_to_fetch)] = <<today[1], today[2]>>
        /\ \A i \in 1..Len(months_to_fetch) : months_to_fetch[i][2] \in 1..12
        /\ \A i \in 1..(Len(months_to_fetch) - 1) :
              MonthIndex(months_to_fetch[i + 1]) = MonthIndex(months_to_fetch[i]) + 1
        /\ fetched <= Len(months_to_fetch)
        /\ pc # "fetch" => fetched = Len(months_to_fetch)

\* a run over two ends of a year has requested every month of its window
C24_Witness ==
    /\ pc = "done" /\ outcome = "saved"
    /\ last_date = <<2023, 11, 30>>
    /\ today = <<2025, 1, 2>>
    /\ Len(months_to_fetch) = 14
    /\ fetched = 14

----------------------------------------------------------------------------
(* The first fetch, fetch_digby_temperature.py, followed by update runs:    *)
(* FirstSpec                                                                *)

START_YEAR == 2023
END_YEAR == 2025

\* the file the first fetch writes (fetch line 35), the file the update run
\* reads and writes (update line 32), and the file visualize_temperature
\* reads (line 13), which fetch_csv_exists stands for
OUTPUT_FILE == "digby_temperature_2023-2025.csv"
CSV_FILE == "digby_temperature_2020-2025.csv"
INPUT_FILE == "digby_temperature_2023-2025.csv"

\* fetch lines 104-106: the (year, month) of a turn of the two loops
TurnMonth(turn) == <<START_YEAR + (turn \div 12), (turn % 12) + 1>>

Turns == 12 * (END_YEAR + 1 - START_YEAR)

\* fetch_month_data (fetch lines 42-94): None for a month that starts after
\* today, else what the service gives, which has no day after today
FirstResponses(year, month, now) ==
    IF DateLT(now, <<year, month, 1>>) THEN {ApiNone}
    ELSE {r \in ApiResponses(year, month) :
             \A i \in 1..Len(r.weather) : DateLE(r.weather[i].date, now)}

FirstInit ==
    /\ UpdInit
    /\ MergeParked /\ AggParked /\ RtParked /\ DayParked
    /\ fetch_pc = "fetch"
    /\ total_requests = 0
    /\ all_records = <<>>
    /\ fetch_csv_rows = <<>>
    /\ fetch_exit = -1

notFetchAggVars ==
    <<agg_df, agg_exists, agg_has_wind, agg_ran, agg_exit, artifacts, coldVars,
      extremeVars, janVars, cmpVars, doyVars, windVars>>

\* fetch lines 104-126: one turn of the loops; every day of the answer is kept
FirstFetchMonth ==
    /\ fetch_pc = "fetch"
    /\ total_requests < Turns
    /\ \E month_data \in FirstResponses(TurnMonth(total_requests)[1],
                                        TurnMonth(total_requests)[2], today) :
          all_records' = all_records \o month_data.weather
    /\ total_requests' = total_requests + 1
    /\ UNCHANGED <<fetch_pc, fetch_csv_rows, fetch_exit, fetch_csv_exists, notFetchAggVars,
                   mergeVars, diskVars, runVars, rtVars, dayVars>>

\* fetch lines 133-137: pd.DataFrame([]) has no 'date' column, line 136
\* raises KeyError when no day was retrieved
FirstFetchNothing ==
    /\ fetch_pc = "fetch"
    /\ total_requests = Turns
    /\ all_records = <<>>
    /\ fetch_pc' = "done"
    /\ fetch_exit' = 1
    /\ UNCHANGED <<total_requests, all_records, fetch_csv_rows, fetch_csv_exists,
                   notFetchAggVars, mergeVars, diskVars, runVars, rtVars, dayVars>>

\* fetch lines 133-180: sort, write OUTPUT_FILE, draw the plot, end
FirstSave ==
    /\ fetch_pc = "fetch"
    /\ total_requests = Turns
    /\ all_records # <<>>
    /\ \E df \in SortValues(all_records) :
          /\ fetch_csv_rows' = (IF OUTPUT_FILE = INPUT_FILE THEN df ELSE fetch_csv_rows)
          /\ csv_rows' = (IF OUTPUT_FILE = CSV_FILE THEN df ELSE csv_rows)
    /\ fetch_csv_exists' = (fetch_csv_exists \/ OUTPUT_FILE = INPUT_FILE)
    /\ csv_exists' = (csv_exists \/ OUTPUT_FILE = CSV_FILE)
    /\ csv_header' = (csv_header \/ OUTPUT_FILE = CSV_FILE)
    /\ fetch_pc' = "done"
    /\ fetch_exit' = 0
    /\ all_records' = <<>>
    /\ UNCHANGED <<total_requests, notFetchAggVars, mergeVars, runVars, rtVars, dayVars>>

\* the update script is run once the first fetch has ended
UpdateAfterFetch == fetch_pc = "done" /\ UpdNext

FirstNext == FirstFetchMonth \/ FirstFetchNothing \/ FirstSave \/ UpdateAfterFetch

FirstSpec == FirstInit /\ [][FirstNext]_vars

\* C25: after fetch_digby_temperature.py has completed successfully the
\* file the update run reads is there: an update run that follows does not
\* end with the 'not found, run fetch_digby_temperature.py first' error.
C25_UpdateFindsFetchedFile ==
    (fetch_pc = "done" /\ fetch_exit = 0) =>
        /\ csv_exists
        /\ ~(pc = "done" /\ outcome = "not_found")

----------------------------------------------------------------------------
(* Property of the two wind scripts, checked under WindSpec *)

\* two exact means are the same number
SameMean(a, b) == IsNaN(a) = IsNaN(b) /\ a[1] * b[2] = b[1] * a[2]

\* two monthly_avg series have the same (year, month) labels and values
SameSeries(a, b) ==
    /\ DOMAIN a = DOMAIN b
    /\ \A ym \in DOMAIN a : SameMean(a[ym], b[ym])

\* C26: on a dataset that has the wind columns, the monthly average wind
\* speed per (year, month) of plot_interactive_wind equals the one of
\* visualize_wind: a day stored with wind_speed_kmph = 0 for lack of wind
\* data enters neither average.
C26_WindMonthlyAveragesAgree ==
    (agg_has_wind /\ wind_monthly_avg # <<>> /\ iwind_monthly_avg # <<>>) =>
        SameSeries(wind_monthly_avg[1], iwind_monthly_avg[1])

====
